---- MODULE Spec2Model ----
(***************************************************************************)
(* A model of VIXEN/tools/aggregate_results.py: the extraction of          *)
(* normalized rows from loaded benchmark records, the merge of one run     *)
(* into the Excel workbook (the store), the regeneration of Cross_Machine, *)
(* and the batch entry points with their optional cleanup; further the     *)
(* loading of the result files, the resolution of the machine name, the    *)
(* archiver (pack and unpack), and a second invocation running against     *)
(* the same store path.                                                    *)
(*                                                                         *)
(* Modelled columns: only the columns the checked properties read are      *)
(* kept (benchmark_id, machine_name, gpu_name, gpu_driver, vram_gb,        *)
(* run_date, total_tests; test_id, pipeline, resolution, scene, fps_mean;  *)
(* frame); the remaining statistics columns are copied by the code exactly *)
(* like fps_mean and are left out, and so is the constant notes column.    *)
(* Timestamps are numbers, ordered as the ISO strings are.                 *)
(***************************************************************************)
EXTENDS Integers, Sequences, FiniteSets, TLC

\* ------------------------------------------------------------------ bounds

\* Longest frames sequence of a record drawn by the extraction specification.
MaxFrames == 3
\* Number of distinct values uuid4()[:8] can take in the model.
NumUuids == 2
\* Number of merges (runs) started in one behaviour.
MaxMerges == 2

\* ------------------------------------------------------- absent json fields

\* A string field that is absent from the JSON record.
AbsentStr == "<absent>"
\* A numeric field that is absent from the JSON record.
AbsentNum == 0 - 1

\* dict.get(key, default): the default replaces an absent value only.
Get(v, default) == IF v = AbsentStr THEN default ELSE v
\* Mutant: the absent numeric value is passed on.
GetNumAsIs(v, default) == v

GetNum(v, default) == IF v = AbsentNum THEN default ELSE v

\* --------------------------------------------------------------- pipelines

\* PIPELINE_SHEET_NAMES: pipeline -> sheet name.
PipelineKeys == {"hardware_rt", "compute", "fragment"}
PIPELINE_SHEET_NAMES(p) ==
    CASE p = "hardware_rt" -> "HW_RT_Frames"
      [] p = "compute" -> "Compute_Frames"
      [] p = "fragment" -> "Fragment_Frames"

FrameSheets == {PIPELINE_SHEET_NAMES(p) : p \in PipelineKeys}
BaseSheets == {"Benchmarks", "Summary"} \cup FrameSheets
SheetNames == BaseSheets \cup {"Cross_Machine"}

\* Lexical order of the strings the code sorts (sort_values, groupby, sorted).
LexOrder ==
    <<"compute", "cube", "fragment", "gpuA", "gpuB", "hardware_rt", "raster",
      "unknown">>
Rank(s) == CHOOSE i \in 1..Len(LexOrder) : LexOrder[i] = s

\* ------------------------------------------------------------------ columns

BenchmarkCols ==
    <<"benchmark_id", "machine_name", "gpu_name", "gpu_driver", "vram_gb",
      "run_date", "total_tests">>
SummaryCols ==
    <<"benchmark_id", "test_id", "pipeline", "resolution", "scene", "fps_mean">>
FrameCols == <<"benchmark_id", "test_id", "frame">>
CrossCols == <<"gpu_name", "pipeline", "avg_fps", "min_fps", "max_fps", "test_count">>

\* The header row a relation is documented to have.
ColsOf(name) ==
    CASE name = "Benchmarks" -> BenchmarkCols
      [] name = "Summary" -> SummaryCols
      [] name = "Cross_Machine" -> CrossCols
      [] OTHER -> FrameCols

HeaderRow(cols) == [kind |-> "header", cols |-> cols]
BlankRow == [kind |-> "blank"]

\* A record as the harness writes it (one JSON file's content): the device
\* fields gpu, driver and vram_gb (a record without device sub-record has
\* all three absent), timestamp, test_id, the configuration and statistics
\* fields, frames as the sequence of the frames' frame_num (absent frames is
\* the empty sequence, as result.get('frames', []) makes it), and no
\* _source_file yet.
Rec(test_id, gpu, pipeline, scene_type, resolution, fps_mean, frames) ==
    [test_id |-> test_id, gpu |-> gpu, pipeline |-> pipeline,
     scene_type |-> scene_type, resolution |-> resolution,
     fps_mean |-> fps_mean, frames |-> frames,
     driver |-> "drv1", vram_gb |-> 8, timestamp |-> 5,
     source_file |-> AbsentStr]

\* ------------------------------------------------------------- extraction

\* r.get('timestamp') is truthy: the field is there and is not empty (the
\* empty value is 0 here).
Truthy(timestamp) == timestamp # AbsentNum /\ timestamp # 0

\* timestamps = [r.get('timestamp', '') for r in results if r.get('timestamp')]
RECURSIVE Timestamps(_)
Timestamps(results) ==
    IF results = <<>> THEN <<>>
    ELSE (IF Truthy(Head(results).timestamp) THEN <<Head(results).timestamp>>
          ELSE <<>>) \o Timestamps(Tail(results))

\* min(timestamps)
RECURSIVE Min(_)
Min(s) ==
    IF Len(s) = 1 THEN s[1]
    ELSE LET m == Min(Tail(s)) IN IF s[1] < m THEN s[1] ELSE m

\* Mutant: the run date is the first record's timestamp.
RunDateOfFirst(results, now) ==
    IF Truthy(results[1].timestamp) THEN results[1].timestamp ELSE now

\* run_date = min(timestamps) if timestamps else datetime.now().isoformat()
RunDate(results, now) ==
    IF Timestamps(results) # <<>> THEN Min(Timestamps(results)) ELSE now

\* datetime.now() during the n-th merge: later than every record timestamp.
Now(n) == 100 + n

\* extract_benchmark_metadata: no row for no records, else one row.
extract_benchmark_metadata(results, benchmark_id, machine_name, now) ==
    IF results = <<>> THEN <<>>
    ELSE <<[kind |-> "data",
            benchmark_id |-> benchmark_id,
            machine_name |-> machine_name,
            gpu_name |-> Get(results[1].gpu, "unknown"),
            gpu_driver |-> Get(results[1].driver, "unknown"),
            vram_gb |-> GetNum(results[1].vram_gb, 0),
            run_date |-> RunDate(results, now),
            total_tests |-> Len(results)]>>

\* The sort key of sort_values(['pipeline', 'resolution', 'scene']).
SummaryKeyLess(a, b) ==
    \/ Rank(a.pipeline) < Rank(b.pipeline)
    \/ /\ a.pipeline = b.pipeline
       /\ \/ a.resolution < b.resolution
          \/ /\ a.resolution = b.resolution
             /\ Rank(a.scene) < Rank(b.scene)

\* Stable insertion of row r into the sorted sequence s.
RECURSIVE InsertSorted(_, _)
InsertSorted(r, s) ==
    IF s = <<>> THEN <<r>>
    ELSE IF SummaryKeyLess(r, Head(s)) THEN <<r>> \o s
    ELSE <<Head(s)>> \o InsertSorted(r, Tail(s))

\* A stable sort: each row goes after the rows with an equal key before it.
RECURSIVE SortSummary(_)
SortSummary(rows) ==
    IF rows = <<>> THEN <<>>
    ELSE InsertSorted(rows[Len(rows)], SortSummary(SubSeq(rows, 1, Len(rows) - 1)))

\* The loop of extract_summary_data over one record: zero or one row.
SummaryRowsOf(result, benchmark_id) ==
    LET pipeline == Get(result.pipeline, "unknown")
    IN IF pipeline = "unknown" \/ Get(result.scene_type, "unknown") = "unknown"
       THEN <<>>
       ELSE <<[kind |-> "data",
               benchmark_id |-> benchmark_id,
               test_id |-> Get(result.test_id, "unknown"),
               pipeline |-> pipeline,
               resolution |-> GetNum(result.resolution, 0),
               scene |-> Get(result.scene_type, "unknown"),
               fps_mean |-> GetNum(result.fps_mean, 0)]>>

RECURSIVE SummaryUnsorted(_, _)
SummaryUnsorted(results, benchmark_id) ==
    IF results = <<>> THEN <<>>
    ELSE SummaryRowsOf(Head(results), benchmark_id)
         \o SummaryUnsorted(Tail(results), benchmark_id)

extract_summary_data(results, benchmark_id) ==
    SortSummary(SummaryUnsorted(results, benchmark_id))

\* Mutant: the midpoint rounded up.
CaptureFrameRoundedUp(frames) == (Len(frames) + 1) \div 2

\* capture_frame = measurement_frames // 2
CaptureFrame(frames) == Len(frames) \div 2

\* The inner loop over one record's frames: a row per frame whose frame_num
\* (default 0) differs from the capture frame.
RECURSIVE FrameRows(_, _, _, _)
FrameRows(frames, capture_frame, test_id, benchmark_id) ==
    IF frames = <<>> THEN <<>>
    ELSE LET frame_num == GetNum(Head(frames), 0)
             rest == FrameRows(Tail(frames), capture_frame, test_id, benchmark_id)
         IN IF frame_num = capture_frame THEN rest
            ELSE <<[kind |-> "data", benchmark_id |-> benchmark_id,
                    test_id |-> test_id, frame |-> frame_num]>> \o rest

\* Mutant: no frame is taken for the capture frame, every sample is kept.
FrameRowsOfEverySample(result, sheet_name, benchmark_id) ==
    LET pipeline == Get(result.pipeline, "unknown")
    IN IF pipeline = "unknown" \/ pipeline \notin PipelineKeys THEN <<>>
       ELSE IF PIPELINE_SHEET_NAMES(pipeline) # sheet_name THEN <<>>
       ELSE FrameRows(result.frames, AbsentNum,
                      Get(result.test_id, "unknown"), benchmark_id)

\* The rows one record adds to sheet_name.
FrameRowsOf(result, sheet_name, benchmark_id) ==
    LET pipeline == Get(result.pipeline, "unknown")
    IN IF pipeline = "unknown" \/ pipeline \notin PipelineKeys THEN <<>>
       ELSE IF PIPELINE_SHEET_NAMES(pipeline) # sheet_name THEN <<>>
       ELSE FrameRows(result.frames, CaptureFrame(result.frames),
                      Get(result.test_id, "unknown"), benchmark_id)

RECURSIVE FrameDf(_, _, _)
FrameDf(results, sheet_name, benchmark_id) ==
    IF results = <<>> THEN <<>>
    ELSE FrameRowsOf(Head(results), sheet_name, benchmark_id)
         \o FrameDf(Tail(results), sheet_name, benchmark_id)

\* extract_frame_data_by_pipeline: sheet name -> rows.
extract_frame_data_by_pipeline(results, benchmark_id) ==
    [s \in FrameSheets |-> FrameDf(results, s, benchmark_id)]

\* ------------------------------------------------------------- the workbook

\* A worksheet: whether the workbook has it, and its rows of cells from row 1.
NoSheet == [present |-> FALSE, rows |-> <<>>]
\* Workbook() with its active sheet removed: no sheet at all.
NewWorkbook == [s \in SheetNames |-> NoSheet]

\* ws.max_row: 1 for a sheet without cells.
max_row(ws) == IF Len(ws.rows) = 0 THEN 1 ELSE Len(ws.rows)

\* ws.cell(row=r_idx, ...) for r_idx = start_row, start_row + 1, ...: the rows
\* written replace what was there, rows skipped over stay blank.
WriteRows(rows, start_row, new) ==
    LET last == start_row - 1 + Len(new)
        n == IF Len(rows) > last THEN Len(rows) ELSE last
    IN IF new = <<>> THEN rows
       ELSE [i \in 1..n |->
                IF i >= start_row /\ i <= last THEN new[i - start_row + 1]
                ELSE IF i <= Len(rows) THEN rows[i]
                ELSE BlankRow]

\* dataframe_to_rows(df, index=False, header=...): an empty frame has no
\* columns, so its header row has no cell.
dataframe_to_rows(df, cols, header) ==
    IF header /\ df # <<>> THEN <<HeaderRow(cols)>> \o df ELSE df

\* Mutant: writing starts on the last used row.
StartRowAtMax(ws, include_header) == max_row(ws)

\* The row append_to_sheet starts writing at.
StartRow(ws, include_header) ==
    IF max_row(ws) > 1 \/ ~include_header THEN max_row(ws) + 1 ELSE 1

append_to_sheet(ws, df, cols, include_header) ==
    IF df = <<>> THEN ws
    ELSE [ws EXCEPT !.rows =
            WriteRows(ws.rows, StartRow(ws, include_header),
                      dataframe_to_rows(df, cols, include_header))]

\* wb.create_sheet(name) followed by the loop writing the frame with header.
CreateSheet(df, cols) ==
    [present |-> TRUE, rows |-> WriteRows(<<>>, 1, dataframe_to_rows(df, cols, TRUE))]

\* Mutant: the sheet is written anew at every merge.
MergeSheetRecreate(ws, df, cols) == CreateSheet(df, cols)

\* Sheets 1 and 2: created with the frame when absent, appended to otherwise.
MergeSheet(ws, df, cols) ==
    IF ~ws.present THEN CreateSheet(df, cols)
    ELSE append_to_sheet(ws, df, cols, FALSE)

\* Mutant: an empty frame is merged like any other.
MergeFrameSheetAlways(ws, df) == MergeSheet(ws, df, FrameCols)

\* Sheets 3-5: an empty frame leaves the workbook as it is.
MergeFrameSheet(ws, df) ==
    IF df = <<>> THEN ws ELSE MergeSheet(ws, df, FrameCols)

\* ----------------------------------------------------------- Cross_Machine

\* The column names pandas reads from the first row of a sheet.
ColumnsOfRow(row) ==
    IF row.kind = "header" THEN {row.cols[i] : i \in 1..Len(row.cols)} ELSE {}

DataRows(rows) == SelectSeq(rows, LAMBDA r : r.kind = "data")

\* summary_df.merge(bench_df[...], on='benchmark_id', how='left'): one merged
\* row per matching Benchmarks row; a Summary row without a match keeps a
\* null gpu_name, which groupby drops.
RECURSIVE MatchRows(_, _)
MatchRows(s, bench) ==
    IF bench = <<>> THEN <<>>
    ELSE (IF Head(bench).benchmark_id = s.benchmark_id
          THEN <<[gpu_name |-> Head(bench).gpu_name, pipeline |-> s.pipeline,
                  fps_mean |-> s.fps_mean]>>
          ELSE <<>>) \o MatchRows(s, Tail(bench))

RECURSIVE LeftJoin(_, _)
LeftJoin(summary, bench) ==
    IF summary = <<>> THEN <<>>
    ELSE MatchRows(Head(summary), bench) \o LeftJoin(Tail(summary), bench)

RECURSIVE SumFps(_)
SumFps(rows) == IF rows = <<>> THEN 0 ELSE Head(rows).fps_mean + SumFps(Tail(rows))

RECURSIVE MinFps(_)
MinFps(rows) ==
    IF Len(rows) = 1 THEN rows[1].fps_mean
    ELSE LET m == MinFps(Tail(rows))
         IN IF rows[1].fps_mean < m THEN rows[1].fps_mean ELSE m

RECURSIVE MaxFps(_)
MaxFps(rows) ==
    IF Len(rows) = 1 THEN rows[1].fps_mean
    ELSE LET m == MaxFps(Tail(rows))
         IN IF rows[1].fps_mean > m THEN rows[1].fps_mean ELSE m

\* mean(...).round(2), in hundredths: round half to even.
MeanRound2(sum, n) ==
    LET q == (100 * sum) \div n
        r == (100 * sum) % n
    IN IF 2 * r < n THEN q
       ELSE IF 2 * r > n THEN q + 1
       ELSE IF q % 2 = 0 THEN q ELSE q + 1

\* One group of merged.groupby(['gpu_name', 'pipeline']).agg(...).
GroupRow(merged, gpu, pipeline) ==
    LET g == SelectSeq(merged, LAMBDA m : m.gpu_name = gpu /\ m.pipeline = pipeline)
    IN IF g = <<>> THEN <<>>
       ELSE <<[kind |-> "data", gpu_name |-> gpu, pipeline |-> pipeline,
               avg_fps |-> MeanRound2(SumFps(g), Len(g)),
               min_fps |-> MinFps(g), max_fps |-> MaxFps(g),
               test_count |-> Len(g)]>>

\* The groups in key order (groupby sorts its keys).
RECURSIVE GroupRows(_, _, _)
GroupRows(merged, i, j) ==
    IF i > Len(LexOrder) THEN <<>>
    ELSE IF j > Len(LexOrder) THEN GroupRows(merged, i + 1, 1)
    ELSE GroupRow(merged, LexOrder[i], LexOrder[j]) \o GroupRows(merged, i, j + 1)

\* extract_cross_machine_data: the early returns, then join and grouping.
\* (Benchmarks always carries its header here: the code writes it with the
\* first run's row, and no entry point merges an empty record list.)
extract_cross_machine_data(wb) ==
    LET data == wb["Summary"].rows
        bench_data == wb["Benchmarks"].rows
    IN IF ~wb["Summary"].present THEN <<>>
       ELSE IF Len(data) < 2 THEN <<>>
       ELSE IF "benchmark_id" \notin ColumnsOfRow(data[1]) THEN <<>>
       ELSE IF ~wb["Benchmarks"].present THEN <<>>
       ELSE IF Len(bench_data) < 2 THEN <<>>
       ELSE IF ~({"fps_mean", "pipeline"} \subseteq ColumnsOfRow(data[1])) THEN <<>>
       ELSE GroupRows(LeftJoin(Tail(data), Tail(bench_data)), 1, 1)

\* Mutant: the old sheet is deleted only when there is a new one to write.
RegenerateCrossKeepStale(wb) ==
    LET cross_df == extract_cross_machine_data(wb)
    IN IF cross_df # <<>>
       THEN [wb EXCEPT !["Cross_Machine"] = CreateSheet(cross_df, CrossCols)]
       ELSE wb

\* Sheet 6: delete Cross_Machine when present, rebuild it when the
\* comparison has rows.
RegenerateCross(wb) ==
    LET wb1 == [wb EXCEPT !["Cross_Machine"] = NoSheet]
        cross_df == extract_cross_machine_data(wb1)
    IN IF cross_df # <<>>
       THEN [wb1 EXCEPT !["Cross_Machine"] = CreateSheet(cross_df, CrossCols)]
       ELSE wb1

\* create_or_update_workbook between loading and saving: every change to
\* the in-memory workbook.
UpdateWorkbook(wb, results, benchmark_id, machine_name, now) ==
    LET benchmark_df ==
            extract_benchmark_metadata(results, benchmark_id, machine_name, now)
        summary_df == extract_summary_data(results, benchmark_id)
        frame_dfs == extract_frame_data_by_pipeline(results, benchmark_id)
        merged ==
            [s \in SheetNames |->
                IF s = "Benchmarks" THEN MergeSheet(wb[s], benchmark_df, BenchmarkCols)
                ELSE IF s = "Summary" THEN MergeSheet(wb[s], summary_df, SummaryCols)
                ELSE IF s \in FrameSheets THEN MergeFrameSheet(wb[s], frame_dfs[s])
                ELSE wb[s]]
    IN RegenerateCross(merged)

\* ------------------------------------------------------------ the file system

\* The benchmark folders under data/benchmarks/, in the lexical order of
\* their names: benchmark_1 and benchmark_2.
FolderNames ==
    << <<"b", "e", "n", "c", "h", "m", "a", "r", "k", "_", "1">>,
       <<"b", "e", "n", "c", "h", "m", "a", "r", "k", "_", "2">> >>
Folders == DOMAIN FolderNames
FolderName(d) == FolderNames[d]

\* An --input path that does not exist.
MissingDir == 0
InputDirs == Folders \cup {MissingDir}

\* name[:8] and str(uuid.uuid4())[:8]
Prefix8(name) == SubSeq(name, 1, IF Len(name) < 8 THEN Len(name) ELSE 8)

\* generate_benchmark_id(): the first 8 hex digits of a random UUID.
Uuids == 1..NumUuids

\* The identifier process_all_benchmarks builds: f"{folder.name[:8]}_{uuid8}".
FolderBenchmarkId(d, u) == [prefix |-> Prefix8(FolderName(d)), uuid |-> u]
\* The identifier main builds for a single input directory: uuid8 alone.
PlainBenchmarkId(u) == [prefix |-> <<>>, uuid |-> u]
NoId == [prefix |-> <<>>, uuid |-> 0]

\* The records of the modelled result files (test ids are unique).
RT3 == Rec("t_rt", "gpuA", "hardware_rt", "cube", 256, 60, <<0, 1, 2>>)
CompNoScene ==
    [Rec("t_ns", "gpuA", "compute", AbsentStr, 128, 40, <<0, 1>>)
        EXCEPT !.timestamp = 3]
NoPipe ==
    [Rec("t_np", "gpuA", AbsentStr, "cube", 128, 10, <<0, 1>>)
        EXCEPT !.timestamp = AbsentNum]
Frag ==
    [Rec("t_fr", "gpuB", "fragment", "cube", 128, 30, <<AbsentNum, AbsentNum>>)
        EXCEPT !.timestamp = AbsentNum, !.driver = AbsentStr]
Comp2 == Rec("t_co", "gpuB", "compute", "cube", 128, 51, <<0, 1>>)

\* The names of the *.json files, in lexical order.
FileOrder == <<"a.json", "b.json", "c.json">>
FileRank(name) == CHOOSE i \in 1..Len(FileOrder) : FileOrder[i] = name

\* A *.json file: one holding a JSON object, one json.load rejects
\* (JSONDecodeError), and one holding JSON that is not an object, such as [].
JsonFile(name, rec) == [name |-> name, kind |-> "object", data |-> rec]
Malformed(name) == [name |-> name, kind |-> "malformed", data |-> NoPipe]
NotAnObject(name) == [name |-> name, kind |-> "not_object", data |-> NoPipe]

\* The contents a benchmark folder can start with, in the order glob yields
\* the files.
FolderInputs(d) ==
    IF d = 1
    THEN { <<JsonFile("b.json", CompNoScene), JsonFile("a.json", RT3)>>,
           <<JsonFile("a.json", NoPipe)>>,
           <<Malformed("a.json")>> }
    ELSE { <<JsonFile("a.json", Frag), Malformed("b.json"), JsonFile("c.json", Comp2)>>,
           <<JsonFile("a.json", NoPipe)>>,
           <<JsonFile("b.json", Comp2), NotAnObject("a.json")>> }

\* sorted(results_dir.glob("*.json")): by file name.
RECURSIVE InsertFile(_, _)
InsertFile(f, s) ==
    IF s = <<>> THEN <<f>>
    ELSE IF FileRank(f.name) < FileRank(Head(s).name) THEN <<f>> \o s
    ELSE <<Head(s)>> \o InsertFile(f, Tail(s))

RECURSIVE SortFiles(_)
SortFiles(files) ==
    IF files = <<>> THEN <<>>
    ELSE InsertFile(Head(files), SortFiles(Tail(files)))

\* The loop body for the files that load: the record tagged with the name
\* of its file; a file json.load rejects adds nothing.
RECURSIVE LoadSorted(_)
LoadSorted(files) ==
    IF files = <<>> THEN <<>>
    ELSE (IF Head(files).kind = "object"
          THEN <<[Head(files).data EXCEPT !.source_file = Head(files).name]>>
          ELSE <<>>) \o LoadSorted(Tail(files))

\* load_benchmark_results when it returns: the records in file-name order.
load_benchmark_results(files) == LoadSorted(SortFiles(files))

\* data['_source_file'] = ... on JSON that is not an object raises
\* TypeError, which the except clause does not catch: the load raises.
LoadRaises(files) == \E i \in 1..Len(files) : files[i].kind = "not_object"

\* The store file: absent, unreadable by load_workbook, or a workbook.
AbsentFile == [kind |-> "absent", wb |-> NewWorkbook]
UnreadableFile == [kind |-> "unreadable", wb |-> NewWorkbook]
WorkbookFile(wb) == [kind |-> "workbook", wb |-> wb]

\* A store left by earlier use: one run without Summary rows, and a
\* Cross_Machine sheet that no longer matches anything.
LegacyId == [prefix |-> <<>>, uuid |-> 0]
LegacyWorkbook ==
    [s \in SheetNames |->
        IF s = "Benchmarks"
        THEN [present |-> TRUE,
              rows |-> <<HeaderRow(BenchmarkCols),
                         [kind |-> "data", benchmark_id |-> LegacyId,
                          machine_name |-> "host1", gpu_name |-> "gpuA",
                          gpu_driver |-> "drv1", vram_gb |-> 8, run_date |-> 1,
                          total_tests |-> 1]>>]
        ELSE IF s = "Cross_Machine"
        THEN [present |-> TRUE,
              rows |-> <<HeaderRow(CrossCols),
                         [kind |-> "data", gpu_name |-> "gpuA", pipeline |-> "compute",
                          avg_fps |-> 4000, min_fps |-> 40, max_fps |-> 40,
                          test_count |-> 1]>>]
        ELSE NoSheet]

\* ------------------------------------------------------------ machine name

\* What the machine name is resolved from: --machine-name (absent when not
\* given), VIXEN_MACHINE_NAME (absent when not in os.environ), and
\* benchmark_config.json.
NoConfig == [kind |-> "nofile", suite |-> FALSE, machine_name |-> AbsentStr]
BrokenConfig == [kind |-> "malformed", suite |-> FALSE, machine_name |-> AbsentStr]
Config(suite, name) == [kind |-> "ok", suite |-> suite, machine_name |-> name]
Hostname == "host1"

\* get_machine_name(): the environment variable when set, else the config
\* file's suite.machine_name when the file loads and the name is not empty,
\* else socket.gethostname().
get_machine_name(e) ==
    IF e.environ # AbsentStr THEN e.environ
    ELSE IF /\ e.config.kind = "ok"
            /\ e.config.suite
            /\ e.config.machine_name \notin {AbsentStr, ""}
         THEN e.config.machine_name
    ELSE Hostname

\* main, single input directory: args.machine_name or get_machine_name()
SingleMachineName(e) ==
    IF e.cli \notin {AbsentStr, ""} THEN e.cli ELSE get_machine_name(e)

\* process_all_benchmarks: machine_name = get_machine_name()
FolderMachineName(e) == get_machine_name(e)

\* The setup of the merge specification: nothing is configured.
PlainSetup == [cli |-> AbsentStr, environ |-> AbsentStr, config |-> NoConfig]

\* ------------------------------------------------------------- the archiver

\* The name of the directory given to --pack, and the files it can hold, as
\* paths relative to it.
DirName == "benchmark_1"
PathPool == {<<"a.json">>, <<"b.json">>, <<"debug_images", "x.png">>}
Contents == {"bytes1", "bytes2"}

\* A file tree: relative path -> content.
EmptyTree == [p \in {} |-> "bytes1"]
Trees == UNION {[ps -> Contents] : ps \in SUBSET PathPool}

NoSource == [exists |-> FALSE, tree |-> EmptyTree]
Source(tree) == [exists |-> TRUE, tree |-> tree]
NoZip == [exists |-> FALSE, entries |-> EmptyTree]
Zip(entries) == [exists |-> TRUE, entries |-> entries]
NoReturn == [done |-> FALSE, path |-> <<>>]
NoPacked == [done |-> FALSE, tree |-> EmptyTree]

\* An archive that pack_benchmark did not make: its only entry is not nested.
FlatZip == Zip([n \in {<<"a.json">>} |-> "bytes2"])
\* A target directory that already holds a file of an earlier extraction.
StaleTarget == [n \in {<<DirName, "a.json">>} |-> "bytes2"]

\* Mutant: the archive names are relative to the source directory itself.
ArcNameInsideSource(p) == p

\* arcname = file_path.relative_to(source_dir.parent)
ArcName(p) == <<DirName>> \o p

\* The entries zf.write adds for the files source_dir.rglob('*') finds.
PackEntries(tree) ==
    [n \in {ArcName(p) : p \in DOMAIN tree} |->
        tree[CHOOSE p \in DOMAIN tree : ArcName(p) = n]]

\* zf.extractall(output_dir): every entry is written under the target, over
\* a file that is already there.
ExtractAll(target, entries) ==
    [n \in DOMAIN target \cup DOMAIN entries |->
        IF n \in DOMAIN entries THEN entries[n] ELSE target[n]]

\* set(Path(n).parts[0] for n in zf.namelist() if '/' in n or '\\' in n)
RootFolders(entries) == {n[1] : n \in {m \in DOMAIN entries : Len(m) > 1}}

\* The directories unpack_benchmark can return, as paths under the target:
\* list(root_folders)[0], any element of the set, or the target itself.
ExtractedDirs(entries) ==
    IF RootFolders(entries) # {} THEN {<<r>> : r \in RootFolders(entries)}
    ELSE {<<>>}

ArchOff ==
    [src |-> NoSource, zip |-> NoZip, target |-> EmptyTree, ret |-> NoReturn,
     packed |-> NoPacked, written |-> {}]

\* ------------------------------------------------------ a second invocation

\* The locals of a second single-directory invocation against the same
\* store; clash: a save began while the other invocation's save was running.
OtherLocals(p) ==
    [pc |-> p, cur |-> 0, results |-> <<>>, benchmark_id |-> NoId,
     machine_name |-> AbsentStr, wb |-> NewWorkbook, pre |-> AbsentFile,
     clash |-> FALSE]
\* No second invocation exists.
OtherOff == OtherLocals("off")
\* A second invocation can start.
OtherIdle == OtherLocals("idle")

\* What a completed wb.save leaves at the output path: the workbook, unless
\* another invocation was writing the same path meanwhile. While the other
\* one still writes, the file is a mix of both; once both have finished it
\* is the later one's workbook or a mix.
SaveResult(w, otherWriting, clash) ==
    IF otherWriting THEN {UnreadableFile}
    ELSE IF clash THEN {WorkbookFile(w), UnreadableFile}
    ELSE {WorkbookFile(w)}

\* -------------------------------------------------------------------- state

VARIABLES
    file,          \* the store file at the output path
    dirs,          \* folder -> [json: its *.json files, debug_images: BOOLEAN]
    pc,            \* where the running invocation is; "idle" when none runs
    mode,          \* "all" (--process-all), "single" or "none"
    cleanup,       \* --cleanup
    queue,         \* process-all: the folders still to process
    cur,           \* the folder being merged
    results,       \* its loaded records
    benchmark_id,  \* its run identifier
    machine_name,  \* its machine name
    processed,     \* process-all: the count it returns
    batch,         \* history: the folders and the store as process-all began
    wb,            \* the workbook in memory
    pre,           \* history: the store file as the merge found it
    savedLog,      \* history: the runs whose save completed, in order
    merges,        \* history: merges started
    exit,          \* how the last invocation ended, and what it reported
    origin,        \* history: the kind of store file the behaviour began with
    nameEnv,       \* --machine-name, the environment variable, the config file
    other,         \* a second invocation running against the same store
    arch,          \* the archiver's directory, archive and target
    exIn,          \* extraction specification: the record list
    exOut          \* extraction specification: the extracted frames

vars ==
    <<file, dirs, pc, mode, cleanup, queue, cur, results, benchmark_id,
      machine_name, processed, batch, wb, pre, savedLog, merges, exit, origin,
      nameEnv, other, arch, exIn, exOut>>

procVars ==
    <<pc, mode, cleanup, queue, cur, results, benchmark_id, machine_name,
      processed, batch, wb, pre>>
exVars == <<origin, nameEnv, other, arch, exIn, exOut>>
soloVars == <<origin, nameEnv, arch, exIn, exOut>>

NoOut ==
    [done |-> FALSE, benchmarks |-> <<>>, summary |-> <<>>,
     frames |-> [s \in FrameSheets |-> <<>>]]

NoDirs == [d \in Folders |-> [json |-> <<>>, debug_images |-> FALSE]]
NoBatch == [dirs0 |-> NoDirs, log0 |-> 0, rows0 |-> 0, folders |-> <<>>]

\* What main returned (or how it ended) and the message it printed.
Exit(cmd, arg, status, report) ==
    [cmd |-> cmd, arg |-> arg, status |-> status, report |-> report]
NoExit == Exit("none", 0, "none", "none")

\* The input directory of the running single-directory invocation.
ExitArg == IF mode = "single" THEN cur ELSE 0

\* No invocation is running: its locals are gone.
Idle ==
    /\ pc' = "idle"
    /\ mode' = "none"
    /\ cleanup' = FALSE
    /\ queue' = <<>>
    /\ cur' = 0
    /\ results' = <<>>
    /\ benchmark_id' = NoId
    /\ machine_name' = AbsentStr
    /\ processed' = 0
    /\ batch' = NoBatch
    /\ wb' = NewWorkbook
    /\ pre' = AbsentFile

InitLocals ==
    /\ pc = "idle"
    /\ mode = "none"
    /\ cleanup = FALSE
    /\ queue = <<>>
    /\ cur = 0
    /\ results = <<>>
    /\ benchmark_id = NoId
    /\ machine_name = AbsentStr
    /\ processed = 0
    /\ batch = NoBatch
    /\ wb = NewWorkbook
    /\ pre = AbsentFile
    /\ savedLog = <<>>
    /\ merges = 0
    /\ exit = NoExit

Init ==
    /\ file \in {AbsentFile, WorkbookFile(LegacyWorkbook)}
    /\ dirs \in [Folders -> {[json |-> f, debug_images |-> TRUE] :
                                f \in UNION {FolderInputs(d) : d \in Folders}}]
    /\ \A d \in Folders : dirs[d].json \in FolderInputs(d)
    /\ InitLocals
    /\ origin = file.kind
    /\ nameEnv = PlainSetup
    /\ other = OtherOff
    /\ arch = ArchOff
    /\ exIn = <<>>
    /\ exOut = NoOut

\* ------------------------------------------------------------ entry points

\* get_benchmark_folders: the folders holding a *.json file, sorted.
get_benchmark_folders(d) ==
    LET RECURSIVE From(_)
        From(i) ==
            IF i > Len(FolderNames) THEN <<>>
            ELSE (IF d[i].json # <<>> THEN <<i>> ELSE <<>>) \o From(i + 1)
    IN From(1)

\* main --process-all up to the loop: no folder found makes
\* process_all_benchmarks return 0 at once, and main 1.
StartProcessAll ==
    /\ pc = "idle"
    /\ \E c \in BOOLEAN :
        LET folders == get_benchmark_folders(dirs)
        IN IF folders = <<>>
           THEN /\ exit' = Exit("all", 0, "1", "No benchmark folders found")
                /\ UNCHANGED procVars
           ELSE /\ pc' = "next"
                /\ mode' = "all"
                /\ cleanup' = c
                /\ queue' = folders
                /\ processed' = 0
                /\ batch' = [dirs0 |-> dirs, log0 |-> Len(savedLog),
                             rows0 |->
                                 IF file.kind = "workbook"
                                 THEN Len(DataRows(file.wb["Benchmarks"].rows))
                                 ELSE 0,
                             folders |-> folders]
                /\ exit' = NoExit
                /\ UNCHANGED <<cur, results, benchmark_id, machine_name, wb, pre>>
    /\ UNCHANGED <<file, dirs, savedLog, merges, exVars>>

\* The loop of process_all_benchmarks is over: it returns processed, and
\* main returns 0 if processed > 0 else 1.
ProcessAllDone ==
    /\ pc = "next"
    /\ queue = <<>>
    /\ exit' = Exit("all", 0, IF processed > 0 THEN "0" ELSE "1", "Processed")
    /\ Idle
    /\ UNCHANGED <<file, dirs, savedLog, merges, exVars>>

\* Mutant: a skipped folder is counted as processed.
SkipFolderCounted ==
    /\ pc = "next"
    /\ queue # <<>>
    /\ ~LoadRaises(dirs[Head(queue)].json)
    /\ load_benchmark_results(dirs[Head(queue)].json) = <<>>
    /\ queue' = Tail(queue)
    /\ processed' = processed + 1
    /\ UNCHANGED <<pc, mode, cleanup, cur, results, benchmark_id, machine_name,
                   batch, wb, pre>>
    /\ UNCHANGED <<file, dirs, savedLog, merges, exit, exVars>>

\* A folder without a loadable record is skipped.
SkipFolder ==
    /\ pc = "next"
    /\ queue # <<>>
    /\ ~LoadRaises(dirs[Head(queue)].json)
    /\ load_benchmark_results(dirs[Head(queue)].json) = <<>>
    /\ queue' = Tail(queue)
    /\ UNCHANGED <<pc, mode, cleanup, cur, results, benchmark_id, machine_name,
                   processed, batch, wb, pre>>
    /\ UNCHANGED <<file, dirs, savedLog, merges, exit, exVars>>

\* The load of a folder raises: the exception leaves process_all_benchmarks
\* and main.
LoadFails ==
    /\ pc = "next"
    /\ queue # <<>>
    /\ LoadRaises(dirs[Head(queue)].json)
    /\ exit' = Exit("all", 0, "raised", "TypeError")
    /\ Idle
    /\ UNCHANGED <<file, dirs, savedLog, merges, exVars>>

\* A folder with records: its identifier is generated, its machine name
\* resolved, and the merge begins.
BeginFolder ==
    /\ pc = "next"
    /\ queue # <<>>
    /\ ~LoadRaises(dirs[Head(queue)].json)
    /\ load_benchmark_results(dirs[Head(queue)].json) # <<>>
    /\ merges < MaxMerges
    /\ \E u \in Uuids : benchmark_id' = FolderBenchmarkId(Head(queue), u)
    /\ machine_name' = FolderMachineName(nameEnv)
    /\ cur' = Head(queue)
    /\ results' = load_benchmark_results(dirs[Head(queue)].json)
    /\ queue' = Tail(queue)
    /\ pc' = "open"
    /\ merges' = merges + 1
    /\ UNCHANGED <<mode, cleanup, processed, batch, wb, pre>>
    /\ UNCHANGED <<file, dirs, savedLog, exit, exVars>>

\* main with a single input directory: a missing directory or no record
\* returns 1, a load that raises ends main, else the merge begins under a
\* plain identifier.
StartSingle ==
    /\ pc = "idle"
    /\ merges < MaxMerges
    /\ \E d \in InputDirs, c \in BOOLEAN, u \in Uuids :
        IF d = MissingDir
        THEN /\ exit' = Exit("single", d, "1", "Input directory not found")
             /\ UNCHANGED <<procVars, merges>>
        ELSE IF LoadRaises(dirs[d].json)
        THEN /\ exit' = Exit("single", d, "raised", "TypeError")
             /\ UNCHANGED <<procVars, merges>>
        ELSE IF load_benchmark_results(dirs[d].json) = <<>>
        THEN /\ exit' = Exit("single", d, "1", "No benchmark results found")
             /\ UNCHANGED <<procVars, merges>>
        ELSE /\ pc' = "open"
             /\ mode' = "single"
             /\ cleanup' = c
             /\ cur' = d
             /\ results' = load_benchmark_results(dirs[d].json)
             /\ benchmark_id' = PlainBenchmarkId(u)
             /\ machine_name' = SingleMachineName(nameEnv)
             /\ merges' = merges + 1
             /\ exit' = NoExit
             /\ UNCHANGED <<queue, processed, batch, wb, pre>>
    /\ UNCHANGED <<file, dirs, savedLog, exVars>>

\* ------------------------------------------------- create_or_update_workbook

\* The store exists and load_workbook reads it, or it is absent and a new
\* workbook is made.
OpenStore ==
    /\ pc = "open"
    /\ file.kind # "unreadable"
    /\ wb' = IF file.kind = "workbook" THEN file.wb ELSE NewWorkbook
    /\ pre' = file
    /\ pc' = "build"
    /\ UNCHANGED <<mode, cleanup, queue, cur, results, benchmark_id,
                   machine_name, processed, batch>>
    /\ UNCHANGED <<file, dirs, savedLog, merges, exit, exVars>>

\* load_workbook raises on a file it cannot read; nothing catches it, the
\* invocation ends.
OpenFails ==
    /\ pc = "open"
    /\ file.kind = "unreadable"
    /\ exit' = Exit(mode, ExitArg, "raised", "BadZipFile")
    /\ Idle
    /\ UNCHANGED <<file, dirs, savedLog, merges, exVars>>

\* Extraction and every sheet update, in memory.
BuildWorkbook ==
    /\ pc = "build"
    /\ wb' = UpdateWorkbook(wb, results, benchmark_id, machine_name, Now(merges))
    /\ pc' = "save"
    /\ UNCHANGED <<mode, cleanup, queue, cur, results, benchmark_id,
                   machine_name, processed, batch, pre>>
    /\ UNCHANGED <<file, dirs, savedLog, merges, exit, exVars>>

\* Mutant: the save rewrites the file sheet by sheet, readable in between.
SaveBeginSheetwise ==
    /\ pc = "save"
    /\ file' = WorkbookFile([s \in SheetNames |->
                                IF s = "Benchmarks" THEN wb[s] ELSE pre.wb[s]])
    /\ pc' = "saving"
    /\ other' = [other EXCEPT !.clash = other.clash \/ other.pc = "saving"]
    /\ UNCHANGED <<mode, cleanup, queue, cur, results, benchmark_id,
                   machine_name, processed, batch, wb, pre>>
    /\ UNCHANGED <<dirs, savedLog, merges, exit, soloVars>>

\* wb.save opens the output path for writing: the old content is gone and
\* the archive is unreadable until its last part is written.
SaveBegin ==
    /\ pc = "save"
    /\ file' = UnreadableFile
    /\ pc' = "saving"
    /\ other' = [other EXCEPT !.clash = other.clash \/ other.pc = "saving"]
    /\ UNCHANGED <<mode, cleanup, queue, cur, results, benchmark_id,
                   machine_name, processed, batch, wb, pre>>
    /\ UNCHANGED <<dirs, savedLog, merges, exit, soloVars>>

\* The entry of savedLog for the run of the running invocation.
RunEntry ==
    [folder |-> cur, id |-> benchmark_id, results |-> results,
     machine_name |-> machine_name, now |-> Now(merges)]

\* wb.save completes: the file is the workbook in memory (when no other
\* invocation wrote the path meanwhile).
SaveEnd ==
    /\ pc = "saving"
    /\ file' \in SaveResult(wb, other.pc = "saving", other.clash)
    /\ other' = [other EXCEPT !.clash = (other.pc = "saving")]
    /\ pc' = "saved"
    /\ savedLog' = Append(savedLog, RunEntry)
    /\ UNCHANGED <<mode, cleanup, queue, cur, results, benchmark_id,
                   machine_name, processed, batch, wb, pre>>
    /\ UNCHANGED <<dirs, merges, exit, soloVars>>

\* After the merge returned: process-all counts the folder and goes on with
\* the next one, the single-directory run returns 0.
Continue ==
    IF mode = "all"
    THEN /\ pc' = "next"
         /\ processed' = processed + 1
         /\ UNCHANGED <<mode, cleanup, queue, cur, results, benchmark_id,
                        machine_name, batch, wb, pre, exit>>
    ELSE /\ exit' = Exit("single", cur, "0", "Aggregated")
         /\ Idle

\* Mutant: the purge runs once the workbook is built, before it is saved.
CleanupBeforeSave ==
    /\ pc = "save"
    /\ cleanup
    /\ dirs[cur].json # <<>>
    /\ dirs' = [dirs EXCEPT ![cur] = [json |-> <<>>, debug_images |-> FALSE]]
    /\ UNCHANGED procVars
    /\ UNCHANGED <<file, savedLog, merges, exit, exVars>>

\* cleanup_transient_files: the folder's *.json files and debug_images go.
Cleanup ==
    /\ pc = "saved"
    /\ cleanup
    /\ dirs' = [dirs EXCEPT ![cur] = [json |-> <<>>, debug_images |-> FALSE]]
    /\ Continue
    /\ UNCHANGED <<file, savedLog, merges, exVars>>

\* Without --cleanup nothing is deleted.
NoCleanup ==
    /\ pc = "saved"
    /\ ~cleanup
    /\ Continue
    /\ UNCHANGED <<file, dirs, savedLog, merges, exVars>>

\* The process is terminated from outside, at any point of an invocation.
Interrupt ==
    /\ pc # "idle"
    /\ exit' = Exit(mode, ExitArg, "killed", "none")
    /\ Idle
    /\ UNCHANGED <<file, dirs, savedLog, merges, exVars>>

Next ==
    \/ StartProcessAll
    \/ ProcessAllDone
    \/ SkipFolder
    \/ LoadFails
    \/ BeginFolder
    \/ StartSingle
    \/ OpenStore
    \/ OpenFails
    \/ BuildWorkbook
    \/ SaveBegin
    \/ SaveEnd
    \/ Cleanup
    \/ NoCleanup
    \/ Interrupt

Spec == Init /\ [][Next]_vars

\* ------------------------------------------- the extraction functions alone

\* The values a frame's frame_num is drawn from, and the frames sequences.
FrameNums == {AbsentNum} \cup (0..MaxFrames)
FrameSeqs == UNION {[1..k -> FrameNums] : k \in 0..MaxFrames}
ExPipelines == PipelineKeys \cup {"unknown", "raster", AbsentStr}
ExScenes == {"cube", "unknown", AbsentStr}

\* The record lists drawn: the record under test alone, or after another.
ExInputs ==
    LET recs == {Rec("t_x", "gpuA", p, sc, 128, 10, f) :
                    p \in ExPipelines, sc \in ExScenes, f \in FrameSeqs}
    IN {<<r>> : r \in recs} \cup {<<Comp2, r>> : r \in recs}

ExId == PlainBenchmarkId(1)
ExMachine == Hostname

\* Nothing but the extraction is modelled: no store, empty folders.
InitNoStore ==
    /\ file = AbsentFile
    /\ dirs = NoDirs
    /\ InitLocals
    /\ origin = "absent"
    /\ nameEnv = PlainSetup
    /\ other = OtherOff

InitExtract ==
    /\ InitNoStore
    /\ arch = ArchOff
    /\ exIn \in ExInputs
    /\ exOut = NoOut

\* The three extraction functions applied to the drawn record list.
Extract ==
    /\ ~exOut.done
    /\ exOut' = [done |-> TRUE,
                 benchmarks |->
                     extract_benchmark_metadata(exIn, ExId, ExMachine, Now(0)),
                 summary |-> extract_summary_data(exIn, ExId),
                 frames |-> extract_frame_data_by_pipeline(exIn, ExId)]
    /\ UNCHANGED <<file, dirs, procVars, savedLog, merges, exit, origin,
                   nameEnv, other, arch, exIn>>

NextExtract == Extract

SpecExtract == InitExtract /\ [][NextExtract]_vars

\* ------------------------------------- extraction of records lacking fields

\* Records in which any of the documented fields is absent: the first
\* record of the list varies in every field, a second one in its device
\* fields and timestamp.
MetaFirst ==
    {[Rec(t, g, p, sc, r, f, fr) EXCEPT !.driver = dr, !.vram_gb = v,
                                        !.timestamp = ts] :
        t \in {AbsentStr, "t_x"}, g \in {AbsentStr, "gpuA"},
        p \in {AbsentStr, "compute"}, sc \in {AbsentStr, "cube"},
        r \in {AbsentNum, 128}, f \in {AbsentNum, 10},
        fr \in {<<>>, <<AbsentNum>>, <<AbsentNum, 1, 2>>},
        dr \in {AbsentStr, "drv1"}, v \in {AbsentNum, 8},
        ts \in {AbsentNum, 0, 5}}
MetaSecond ==
    {[Comp2 EXCEPT !.gpu = g, !.driver = dr, !.vram_gb = v, !.timestamp = ts] :
        g \in {AbsentStr, "gpuB"}, dr \in {"drv2"}, v \in {AbsentNum, 16},
        ts \in {AbsentNum, 3, 7}}
MetaInputs ==
    {<<>>} \cup {<<a>> : a \in MetaFirst}
        \cup {<<a, b>> : a \in {m \in MetaFirst : m.frames = <<>> /\ m.test_id = "t_x"},
                         b \in MetaSecond}

InitMeta ==
    /\ InitNoStore
    /\ arch = ArchOff
    /\ exIn \in MetaInputs
    /\ exOut = NoOut

SpecMeta == InitMeta /\ [][NextExtract]_vars

\* --------------------------------------------------- machine name resolution

\* Every way the three sources can be supplied or not.
NameSetups ==
    {[cli |-> c, environ |-> e, config |-> k] :
        c \in {AbsentStr, "", "clibox"},
        e \in {AbsentStr, "envbox"},
        k \in {NoConfig, BrokenConfig, Config(FALSE, "cfgbox"),
               Config(TRUE, AbsentStr), Config(TRUE, ""), Config(TRUE, "cfgbox")}}

\* Folder contents under which every entry point runs.
NameDirs ==
    { [d \in Folders |->
         [json |-> IF d = 1 THEN <<Malformed("a.json")>>
                   ELSE <<JsonFile("a.json", NoPipe)>>,
          debug_images |-> TRUE]],
      [d \in Folders |->
         [json |-> IF d = 1 THEN <<JsonFile("a.json", NoPipe)>>
                   ELSE <<NotAnObject("a.json")>>,
          debug_images |-> TRUE]] }

InitName ==
    /\ file = AbsentFile
    /\ dirs \in NameDirs
    /\ InitLocals
    /\ origin = "absent"
    /\ nameEnv \in NameSetups
    /\ other = OtherOff
    /\ arch = ArchOff
    /\ exIn = <<>>
    /\ exOut = NoOut

SpecName == InitName /\ [][Next]_vars

\* --------------------------------------------------------- pack and unpack

\* Mutant: the archive is opened for writing before the directory is looked
\* at, and the missing directory is not reported.
MainPackUnchecked ==
    /\ arch' = [arch EXCEPT
                  !.zip = Zip(PackEntries(arch.src.tree)),
                  !.packed = [done |-> TRUE, tree |-> arch.src.tree],
                  !.ret = NoReturn,
                  !.written = {}]
    /\ exit' = Exit("pack", 0, "0", "Ready for transport")
    /\ UNCHANGED <<file, dirs, procVars, savedLog, merges, origin, nameEnv,
                   other, exIn, exOut>>

\* main --pack DIR: a missing directory is reported and returns 1 before
\* anything is created; else the archive is written next to the directory.
MainPack ==
    /\ IF ~arch.src.exists
       THEN /\ exit' = Exit("pack", 0, "1", "Source directory not found")
            /\ UNCHANGED arch
       ELSE /\ arch' = [arch EXCEPT
                          !.zip = Zip(PackEntries(arch.src.tree)),
                          !.packed = [done |-> TRUE, tree |-> arch.src.tree],
                          !.ret = NoReturn,
                          !.written = {}]
            /\ exit' = Exit("pack", 0, "0", "Ready for transport")
    /\ UNCHANGED <<file, dirs, procVars, savedLog, merges, origin, nameEnv,
                   other, exIn, exOut>>

\* main --unpack ZIP: a missing archive is reported and returns 1 before
\* anything is extracted; else every entry is extracted under the target
\* and the top-level extracted directory is returned.
MainUnpack ==
    /\ IF ~arch.zip.exists
       THEN /\ exit' = Exit("unpack", 0, "1", "ZIP file not found")
            /\ UNCHANGED arch
       ELSE /\ \E dir \in ExtractedDirs(arch.zip.entries) :
                arch' = [arch EXCEPT
                           !.target = ExtractAll(arch.target, arch.zip.entries),
                           !.written = DOMAIN arch.zip.entries,
                           !.ret = [done |-> TRUE, path |-> dir]]
            /\ exit' = Exit("unpack", 0, "0", "Ready for processing")
    /\ UNCHANGED <<file, dirs, procVars, savedLog, merges, origin, nameEnv,
                   other, exIn, exOut>>

\* The archiver's world: a source directory or none, an archive received
\* from elsewhere or none, an empty or a used target; the input directories
\* of the single-directory entry point hold no record.
InitArchive ==
    /\ file \in {AbsentFile, WorkbookFile(LegacyWorkbook)}
    /\ dirs = NoDirs
    /\ InitLocals
    /\ origin = file.kind
    /\ nameEnv = PlainSetup
    /\ other = OtherOff
    /\ arch \in {[ArchOff EXCEPT !.src = s, !.zip = z, !.target = t] :
                    s \in {NoSource} \cup {Source(tree) : tree \in Trees},
                    z \in {NoZip, FlatZip},
                    t \in {EmptyTree, StaleTarget}}
    /\ exIn = <<>>
    /\ exOut = NoOut

\* The entry points that check a required input path.
NextArchive ==
    \/ MainPack
    \/ MainUnpack
    \/ StartSingle

SpecArchive == InitArchive /\ [][NextArchive]_vars

\* ------------------------------------------- two invocations, one store path

\* The second invocation starts on a single input directory with records.
OtherStart ==
    /\ other.pc = "idle"
    /\ \E d \in Folders, u \in Uuids :
        /\ ~LoadRaises(dirs[d].json)
        /\ load_benchmark_results(dirs[d].json) # <<>>
        /\ other' = [other EXCEPT
                       !.pc = "open",
                       !.cur = d,
                       !.results = load_benchmark_results(dirs[d].json),
                       !.benchmark_id = PlainBenchmarkId(u),
                       !.machine_name = SingleMachineName(nameEnv)]
    /\ UNCHANGED <<file, dirs, procVars, savedLog, merges, exit, soloVars>>

\* It loads the store as it is now, or makes a new workbook.
OtherOpen ==
    /\ other.pc = "open"
    /\ file.kind # "unreadable"
    /\ other' = [other EXCEPT
                   !.pc = "build",
                   !.wb = IF file.kind = "workbook" THEN file.wb ELSE NewWorkbook,
                   !.pre = file]
    /\ UNCHANGED <<file, dirs, procVars, savedLog, merges, exit, soloVars>>

\* The store is being written by the first invocation: load_workbook raises.
OtherOpenFails ==
    /\ other.pc = "open"
    /\ file.kind = "unreadable"
    /\ other' = [other EXCEPT !.pc = "failed"]
    /\ UNCHANGED <<file, dirs, procVars, savedLog, merges, exit, soloVars>>

\* Mutant: the rows are added to the store as it is when they are added,
\* not as it was loaded.
OtherBuildOnCurrent ==
    /\ other.pc = "build"
    /\ file.kind # "unreadable"
    /\ other' = [other EXCEPT
                   !.pc = "save",
                   !.wb = UpdateWorkbook(
                              IF file.kind = "workbook" THEN file.wb ELSE NewWorkbook,
                              other.results, other.benchmark_id,
                              other.machine_name, Now(merges))]
    /\ UNCHANGED <<file, dirs, procVars, savedLog, merges, exit, soloVars>>

\* It adds its rows to the workbook it loaded.
OtherBuild ==
    /\ other.pc = "build"
    /\ other' = [other EXCEPT
                   !.pc = "save",
                   !.wb = UpdateWorkbook(other.wb, other.results,
                                         other.benchmark_id,
                                         other.machine_name, Now(merges))]
    /\ UNCHANGED <<file, dirs, procVars, savedLog, merges, exit, soloVars>>

\* Its wb.save opens the output path for writing.
OtherSaveBegin ==
    /\ other.pc = "save"
    /\ file' = UnreadableFile
    /\ other' = [other EXCEPT !.pc = "saving",
                              !.clash = other.clash \/ pc = "saving"]
    /\ UNCHANGED <<dirs, procVars, savedLog, merges, exit, soloVars>>

\* Its wb.save completes.
OtherSaveEnd ==
    /\ other.pc = "saving"
    /\ file' \in SaveResult(other.wb, pc = "saving", other.clash)
    /\ other' = [other EXCEPT !.pc = "saved", !.clash = (pc = "saving")]
    /\ savedLog' = Append(savedLog,
                          [folder |-> other.cur, id |-> other.benchmark_id,
                           results |-> other.results,
                           machine_name |-> other.machine_name,
                           now |-> Now(merges)])
    /\ UNCHANGED <<dirs, procVars, merges, exit, soloVars>>

\* Two folders with records, an absent or existing store, and one merge
\* left for each of the two invocations.
InitConcurrent ==
    /\ file \in {AbsentFile, WorkbookFile(LegacyWorkbook)}
    /\ dirs = [d \in Folders |->
                 [json |-> IF d = 1
                           THEN <<JsonFile("b.json", CompNoScene), JsonFile("a.json", RT3)>>
                           ELSE <<JsonFile("a.json", Frag), JsonFile("c.json", Comp2)>>,
                  debug_images |-> TRUE]]
    /\ pc = "idle"
    /\ mode = "none"
    /\ cleanup = FALSE
    /\ queue = <<>>
    /\ cur = 0
    /\ results = <<>>
    /\ benchmark_id = NoId
    /\ machine_name = AbsentStr
    /\ processed = 0
    /\ batch = NoBatch
    /\ wb = NewWorkbook
    /\ pre = AbsentFile
    /\ savedLog = <<>>
    /\ merges = MaxMerges - 1
    /\ exit = NoExit
    /\ origin = file.kind
    /\ nameEnv = PlainSetup
    /\ other = OtherIdle
    /\ arch = ArchOff
    /\ exIn = <<>>
    /\ exOut = NoOut

NextConcurrent ==
    \/ StartSingle
    \/ OpenStore
    \/ OpenFails
    \/ BuildWorkbook
    \/ SaveBegin
    \/ SaveEnd
    \/ Cleanup
    \/ NoCleanup
    \/ OtherStart
    \/ OtherOpen
    \/ OtherOpenFails
    \/ OtherBuild
    \/ OtherSaveBegin
    \/ OtherSaveEnd

SpecConcurrent == InitConcurrent /\ [][NextConcurrent]_vars

\* ------------------------------------------------------------------ C1

\* The record under test, its sample count and the rows emitted for it.
ExRec == exIn[Len(exIn)]
ExN == Len(ExRec.frames)
ExRecognized == Get(ExRec.pipeline, "unknown") \in PipelineKeys
ExRows ==
    SelectSeq(exOut.frames[PIPELINE_SHEET_NAMES(ExRec.pipeline)],
              LAMBDA r : r.test_id = ExRec.test_id)
\* The samples carry the frame indices 0..N-1, each once.
ExIndexed ==
    /\ \A i \in 1..ExN : ExRec.frames[i] \in 0..(ExN - 1)
    /\ \A i, j \in 1..ExN : ExRec.frames[i] = ExRec.frames[j] => i = j

\* C1 as stated: every record with a recognized pipeline and N >= 1 samples
\* gets exactly N-1 rows, none of them with frame index floor(N/2).
C1_AsStated ==
    (exOut.done /\ ExRecognized /\ ExN >= 1) =>
        /\ Len(ExRows) = ExN - 1
        /\ \A i \in 1..Len(ExRows) : ExRows[i].frame # ExN \div 2

\* C1 amended: a record with a recognized pipeline gets one row per sample
\* whose frame_num (0 when absent) differs from floor(N/2), so no emitted row
\* has that index; when the N >= 1 samples carry the indices 0..N-1, each
\* once, that is exactly N-1 rows, with every index but floor(N/2).
C1_MidpointExclusion ==
    (exOut.done /\ ExRecognized) =>
        /\ Len(ExRows) =
             ExN - Cardinality({i \in 1..ExN : GetNum(ExRec.frames[i], 0) = ExN \div 2})
        /\ \A i \in 1..Len(ExRows) : ExRows[i].frame # ExN \div 2
        /\ (ExN >= 1 /\ ExIndexed) =>
             /\ Len(ExRows) = ExN - 1
             /\ {ExRows[i].frame : i \in 1..Len(ExRows)} = (0..(ExN - 1)) \ {ExN \div 2}

\* A record with three samples indexed 0, 1, 2 was extracted to two rows.
C1_Witness ==
    /\ exOut.done
    /\ ExRecognized
    /\ ExRec.frames = <<0, 1, 2>>
    /\ Len(ExRows) = 2

\* ------------------------------------------------------------------ C2

UnknownRecord(r) ==
    Get(r.pipeline, "unknown") = "unknown" \/ Get(r.scene_type, "unknown") = "unknown"

\* The rows of a sheet that carry a given run identifier and test id.
RowsOfTest(rows, id, test_id) ==
    SelectSeq(rows, LAMBDA r : r.kind = "data" /\ r.benchmark_id = id
                              /\ r.test_id = test_id)

\* C2 as stated: after a merge is saved, the store holds no Summary row and
\* no per-pipeline frame row of that run for a record whose pipeline or
\* scene_type is "unknown" or absent.
C2_AsStated ==
    pc = "saved" =>
        \A i \in 1..Len(results) :
            UnknownRecord(results[i]) =>
                \A s \in {"Summary"} \cup FrameSheets :
                    RowsOfTest(file.wb[s].rows, benchmark_id, results[i].test_id) = <<>>

\* ------------------------------------------------------------------ C3

\* The rows of a sheet below its first row.
Below(rows) == SubSeq(rows, 2, Len(rows))

\* C3: after a merge is saved, every row Summary had when the merge loaded
\* the store is still at its position, and the rows below the first row are
\* the earlier ones followed by the rows extracted from this run; a merge
\* that creates Summary leaves exactly this run's rows below the first row.
C3_SummaryAppendOnly ==
    pc = "saved" =>
        LET old == pre.wb["Summary"].rows
            new == file.wb["Summary"].rows
            added == extract_summary_data(results, benchmark_id)
        IN /\ Len(new) >= Len(old)
           /\ \A i \in 1..Len(old) : new[i] = old[i]
           /\ Below(new) = Below(old) \o added

\* A second run with two Summary rows was saved after a run with some.
C3_Witness ==
    /\ pc = "saved"
    /\ Len(pre.wb["Summary"].rows) >= 2
    /\ Len(extract_summary_data(results, benchmark_id)) >= 2
    /\ Len(file.wb["Summary"].rows) = Len(pre.wb["Summary"].rows) + 2

\* ------------------------------------------------------------------ C4

\* A sheet with its documented header in row 1 and data rows below.
WellFormedSheet(name, ws) ==
    /\ Len(ws.rows) >= 1
    /\ ws.rows[1] = HeaderRow(ColsOf(name))
    /\ \A i \in 2..Len(ws.rows) : ws.rows[i].kind = "data"

\* C4 as stated: starting from an absent store, every base relation present
\* in the stored workbook has its documented header as first row and data
\* rows below it.
C4_AsStated ==
    (origin = "absent" /\ file.kind = "workbook") =>
        \A s \in BaseSheets :
            file.wb[s].present => WellFormedSheet(s, file.wb[s])

\* ------------------------------------------------------------------ C5

\* A sheet of the store that exists without its documented header row.
HeaderMissing(f, s) ==
    /\ f.kind = "workbook"
    /\ f.wb[s].present
    /\ (f.wb[s].rows = <<>> \/ f.wb[s].rows[1] # HeaderRow(ColsOf(s)))

\* C5 as stated: a merge that found the store malformed fails and leaves the
\* file unchanged; in particular a saved merge has appended no row to a base
\* relation it found without its documented header.
C5_AsStated ==
    pc = "saved" =>
        \A s \in BaseSheets :
            HeaderMissing(pre, s) => file.wb[s].rows = pre.wb[s].rows

\* ------------------------------------------------------------------ C6

\* The run identifiers the entry points can generate.
RunIds ==
    {FolderBenchmarkId(d, u) : d \in Folders, u \in Uuids}
        \cup {PlainBenchmarkId(u) : u \in Uuids}

\* All rows one run contributes to a base relation.
RunRows(s, run) ==
    IF s = "Benchmarks"
    THEN extract_benchmark_metadata(run.results, run.id, run.machine_name, run.now)
    ELSE IF s = "Summary" THEN extract_summary_data(run.results, run.id)
    ELSE extract_frame_data_by_pipeline(run.results, run.id)[s]

\* The rows the saved runs with identifier id contributed to s, in order.
RECURSIVE SavedRows(_, _, _)
SavedRows(s, id, log) ==
    IF log = <<>> THEN <<>>
    ELSE (IF Head(log).id = id THEN RunRows(s, Head(log)) ELSE <<>>)
         \o SavedRows(s, id, Tail(log))

\* The rows the store file shows a reader for identifier id in s.
VisibleRows(s, id) ==
    IF file.kind # "workbook" THEN <<>>
    ELSE SelectSeq(file.wb[s].rows,
                   LAMBDA r : r.kind = "data" /\ r.benchmark_id = id)

\* C6: at every step, also in the middle of a merge and after an
\* interruption, the rows the store file shows for a run identifier are all
\* the rows of the runs saved under it, or none: never a part of a run.
C6_WholeRunsOnly ==
    \A id \in RunIds :
        \/ \A s \in BaseSheets : VisibleRows(s, id) = <<>>
        \/ \A s \in BaseSheets : VisibleRows(s, id) = SavedRows(s, id, savedLog)

\* A merge is about to save a second run: the new rows are in memory only,
\* the file still shows the first run whole.
C6_Witness ==
    /\ pc = "save"
    /\ file.kind = "workbook"
    /\ Len(savedLog) = 1
    /\ wb # file.wb
    /\ benchmark_id # savedLog[1].id
    /\ VisibleRows("Benchmarks", savedLog[1].id) # <<>>

\* ------------------------------------------------------------------ C7

\* The store file shows the Benchmarks row of the run just merged.
RunIsSaved ==
    /\ file = WorkbookFile(wb)
    /\ VisibleRows("Benchmarks", benchmark_id) # <<>>
    /\ savedLog # <<>>
    /\ savedLog[Len(savedLog)] = RunEntry

\* C7: a step deletes files of a folder only with --cleanup, from the state
\* right after that folder's run was saved, and then only in that folder;
\* so a failed merge or a skipped folder deletes nothing.
C7_PersistThenPurge ==
    [][dirs' # dirs =>
        /\ pc = "saved"
        /\ cleanup
        /\ RunIsSaved
        /\ \A d \in Folders : d # cur => dirs'[d] = dirs[d]]_vars

\* A folder was purged: its *.json files and debug_images are gone.
C7_Witness ==
    \E d \in Folders :
        /\ dirs[d].json = <<>>
        /\ ~dirs[d].debug_images
        /\ \E i \in 1..Len(savedLog) : savedLog[i].folder = d

\* ------------------------------------------------------------------ C8

\* The (gpu_name, pipeline) pairs of Summary joined to Benchmarks.
JoinPairs(w) ==
    {<<b.gpu_name, r.pipeline>> :
        <<r, b>> \in {<<r, b>> \in
            {w["Summary"].rows[i] : i \in 1..Len(w["Summary"].rows)}
                \X {w["Benchmarks"].rows[i] : i \in 1..Len(w["Benchmarks"].rows)} :
            r.kind = "data" /\ b.kind = "data" /\ r.benchmark_id = b.benchmark_id}}

\* The positions of the Summary rows in the group of a pair.
GroupOf(w, pair) ==
    {i \in 1..Len(w["Summary"].rows) :
        /\ w["Summary"].rows[i].kind = "data"
        /\ w["Summary"].rows[i].pipeline = pair[2]
        /\ \E j \in 1..Len(w["Benchmarks"].rows) :
            /\ w["Benchmarks"].rows[j].kind = "data"
            /\ w["Benchmarks"].rows[j].benchmark_id = w["Summary"].rows[i].benchmark_id
            /\ w["Benchmarks"].rows[j].gpu_name = pair[1]}

\* The run identifiers in the Benchmarks sheet of w are pairwise distinct.
DistinctRunIds(w) ==
    LET rows == DataRows(w["Benchmarks"].rows)
    IN \A i, j \in 1..Len(rows) :
        i # j => rows[i].benchmark_id # rows[j].benchmark_id

\* C8 as stated: after every merge Cross_Machine has exactly one row per
\* (gpu_name, pipeline) pair of Summary joined to Benchmarks, with the
\* number of Summary rows of the group as test_count and the minimum and
\* maximum of their fps_mean. (Stated for stores whose run identifiers are
\* distinct, so that a violation does not rest on colliding identifiers.)
C8_AsStated ==
    (pc = "saved" /\ DistinctRunIds(file.wb)) =>
        LET w == file.wb
            cross == DataRows(w["Cross_Machine"].rows)
        IN /\ {<<cross[i].gpu_name, cross[i].pipeline>> : i \in 1..Len(cross)}
                = JoinPairs(w)
           /\ Len(cross) = Cardinality(JoinPairs(w))
           /\ \A i \in 1..Len(cross) :
                LET g == GroupOf(w, <<cross[i].gpu_name, cross[i].pipeline>>)
                IN /\ cross[i].test_count = Cardinality(g)
                   /\ \A k \in g : /\ cross[i].min_fps <= w["Summary"].rows[k].fps_mean
                                   /\ cross[i].max_fps >= w["Summary"].rows[k].fps_mean

\* ------------------------------------------------------------------ C9

\* C9: in the workbook a merge saves, Cross_Machine is absent when the
\* comparison computed from the merged Summary and Benchmarks has no row,
\* whatever the store held before, and otherwise holds the header and
\* exactly the rows of that comparison: nothing of an earlier sheet stays.
C9_CrossRebuilt ==
    pc = "saved" =>
        LET cross_df == extract_cross_machine_data(
                            [file.wb EXCEPT !["Cross_Machine"] = NoSheet])
        IN IF cross_df = <<>>
           THEN file.wb["Cross_Machine"] = NoSheet
           ELSE file.wb["Cross_Machine"] =
                    [present |-> TRUE, rows |-> <<HeaderRow(CrossCols)>> \o cross_df]

\* A merge found a Cross_Machine sheet, its comparison had no row, and the
\* saved store has no Cross_Machine.
C9_Witness ==
    /\ pc = "saved"
    /\ pre.kind = "workbook"
    /\ pre.wb["Cross_Machine"].present
    /\ ~file.wb["Cross_Machine"].present

\* ------------------------------------------------------------------ C10

\* C10 as stated: the run identifiers in Benchmarks are pairwise distinct.
C10_AsStated == file.kind = "workbook" => DistinctRunIds(file.wb)

\* ------------------------------------------------------------------ C11

\* The Benchmarks data rows of the store the behaviour began with.
BaseBenchRows ==
    IF origin = "workbook" THEN DataRows(LegacyWorkbook["Benchmarks"].rows) ELSE <<>>

\* The Benchmarks rows of the saved runs, in the order of their saves.
RECURSIVE LogBenchRows(_)
LogBenchRows(log) ==
    IF log = <<>> THEN <<>>
    ELSE RunRows("Benchmarks", Head(log)) \o LogBenchRows(Tail(log))

\* C11: the Benchmarks sheet of the stored workbook is its header, the rows
\* the store began with, and exactly one row per saved merge, in the order
\* of the merges, each carrying its run's identifier: after n merges there
\* are n more data rows, and no earlier row has changed or gone.
C11_OneRowPerMerge ==
    file.kind = "workbook" =>
        LET rows == file.wb["Benchmarks"].rows
        IN /\ rows = <<HeaderRow(BenchmarkCols)>> \o BaseBenchRows
                        \o LogBenchRows(savedLog)
           /\ Len(DataRows(rows)) = Len(BaseBenchRows) + Len(savedLog)
           /\ \A i \in 1..Len(savedLog) :
                rows[1 + Len(BaseBenchRows) + i].benchmark_id = savedLog[i].id

\* Two merges were saved into a store that had one run: three data rows.
C11_Witness ==
    /\ file.kind = "workbook"
    /\ origin = "workbook"
    /\ Len(savedLog) = 2
    /\ Len(DataRows(file.wb["Benchmarks"].rows)) = 3

\* ------------------------------------------------------------------ C12

\* The timestamps present (there and not empty) in the record list.
ExStamps == {exIn[i].timestamp : i \in {j \in 1..Len(exIn) : Truthy(exIn[j].timestamp)}}

\* C12: extract_benchmark_metadata returns no row for no record and one row
\* otherwise; its gpu_name, gpu_driver and vram_gb are the first record's
\* device fields ("unknown" or 0 when absent), its run_date is the least of
\* the timestamps present in the records, and its total_tests is the number
\* of records, whatever extract_summary_data keeps of them.
C12_Metadata ==
    exOut.done =>
        IF exIn = <<>> THEN exOut.benchmarks = <<>>
        ELSE /\ Len(exOut.benchmarks) = 1
             /\ LET row == exOut.benchmarks[1]
                    first == exIn[1]
                IN /\ row.gpu_name =
                        (IF first.gpu = AbsentStr THEN "unknown" ELSE first.gpu)
                   /\ row.gpu_driver =
                        (IF first.driver = AbsentStr THEN "unknown" ELSE first.driver)
                   /\ row.vram_gb =
                        (IF first.vram_gb = AbsentNum THEN 0 ELSE first.vram_gb)
                   /\ row.total_tests = Len(exIn)
                   /\ ExStamps # {} =>
                        /\ row.run_date \in ExStamps
                        /\ \A t \in ExStamps : row.run_date <= t

\* Two records, the second with the earlier timestamp, the first dropped
\* from Summary: run_date is the second's timestamp, total_tests is 2.
C12_Witness ==
    /\ exOut.done
    /\ Len(exIn) = 2
    /\ exIn[1].timestamp = 5
    /\ exIn[2].timestamp = 3
    /\ exIn[1].pipeline = AbsentStr
    /\ Len(exOut.summary) = 1
    /\ exOut.benchmarks[1].run_date = 3
    /\ exOut.benchmarks[1].total_tests = 2

\* ------------------------------------------------------------------ C13

\* The documented precedence: the explicit override, then the environment
\* variable, then the config file's machine_name, then the hostname.
Precedence(e) ==
    IF e.cli \notin {AbsentStr, ""} THEN e.cli
    ELSE IF e.environ # AbsentStr THEN e.environ
    ELSE IF /\ e.config.kind = "ok"
            /\ e.config.suite
            /\ e.config.machine_name \notin {AbsentStr, ""}
         THEN e.config.machine_name
    ELSE Hostname

\* C13 as stated: the Benchmarks row of every saved merge, of either entry
\* point, carries the machine name the precedence gives.
C13_AsStated ==
    pc = "saved" =>
        LET rows == file.wb["Benchmarks"].rows
        IN rows[Len(rows)].machine_name = Precedence(nameEnv)

\* ------------------------------------------------------------------ C14

\* The archive at hand is the one pack_benchmark made of the tree packed.
RoundTrip == arch.ret.done /\ arch.packed.done

\* C14: after unpacking the archive packed from directory D, the files
\* written under the target are exactly D's files, each at <name of D>/<its
\* relative path> with its content, and the returned directory is <name of
\* D> under the target; unpacking an archive without nested entry (also the
\* one packed from a directory without files) returns the target itself.
C14_RoundTrip ==
    /\ RoundTrip =>
        LET tree == arch.packed.tree
        IN /\ arch.written = {<<DirName>> \o p : p \in DOMAIN tree}
           /\ Cardinality(arch.written) = Cardinality(DOMAIN tree)
           /\ \A p \in DOMAIN tree :
                /\ (<<DirName>> \o p) \in DOMAIN arch.target
                /\ arch.target[<<DirName>> \o p] = tree[p]
           /\ DOMAIN tree # {} => arch.ret.path = <<DirName>>
    /\ (arch.ret.done /\ \A n \in DOMAIN arch.zip.entries : Len(n) = 1) =>
            arch.ret.path = <<>>

\* A directory with three files, one of them in a subdirectory, was packed
\* and unpacked over a target that held an older copy of one of them.
C14_Witness ==
    /\ RoundTrip
    /\ DOMAIN arch.packed.tree = PathPool
    /\ arch.packed.tree[<<"a.json">>] = "bytes1"
    /\ arch.target[<<DirName, "a.json">>] = "bytes1"
    /\ Cardinality(arch.written) = 3
    /\ arch.ret.path = <<DirName>>

\* ------------------------------------------------------------------ C15

\* Nothing was created, extracted or modified by the step.
NothingTouched == UNCHANGED <<file, dirs, arch, savedLog>>

\* C15: a step of --pack on a missing directory, of --unpack on a missing
\* archive, or of the single-directory entry point on a missing input
\* directory returns status 1 with its not-found report, does not raise,
\* and leaves the store, the folders, the archive and the target as they
\* were.
C15_NotFound ==
    [][/\ (exit'.cmd = "pack" /\ ~arch.src.exists) =>
            /\ exit'.status = "1"
            /\ exit'.report = "Source directory not found"
            /\ NothingTouched
       /\ (exit'.cmd = "unpack" /\ ~arch.zip.exists) =>
            /\ exit'.status = "1"
            /\ exit'.report = "ZIP file not found"
            /\ NothingTouched
       /\ (exit'.cmd = "single" /\ exit'.arg = MissingDir) =>
            /\ exit'.status = "1"
            /\ exit'.report = "Input directory not found"
            /\ NothingTouched]_vars

\* --pack was run on a missing directory: status 1, and still no archive.
C15_Witness ==
    /\ exit.cmd = "pack"
    /\ exit.status = "1"
    /\ ~arch.src.exists
    /\ ~arch.zip.exists
    /\ file.kind = "absent"

\* ------------------------------------------------------------------ C16

\* res is one record per file of files that holds an object, in file-name
\* order, each tagged with the name of its file.
LoadedFrom(files, res) ==
    /\ Len(res) = Cardinality({i \in 1..Len(files) : files[i].kind = "object"})
    /\ \A i, j \in 1..Len(res) :
        i < j => FileRank(res[i].source_file) < FileRank(res[j].source_file)
    /\ \A i \in 1..Len(res) :
        \E k \in 1..Len(files) :
            /\ files[k].kind = "object"
            /\ res[i] = [files[k].data EXCEPT !.source_file = files[k].name]

\* C16 as stated: the records a merge works on are those of the loadable
\* files of its folder, in file-name order and tagged, and no invocation
\* ends in an exception raised by a file that is not a record.
C16_AsStated ==
    /\ pc \in {"open", "build", "save", "saving", "saved"} =>
            LoadedFrom(dirs[cur].json, results)
    /\ exit.report # "TypeError"

\* ------------------------------------------------------------------ C17

\* The number of Benchmarks data rows a store file holds.
BenchCount(f) ==
    IF f.kind = "workbook" THEN Len(DataRows(f.wb["Benchmarks"].rows)) ELSE 0

\* The folders process-all is done with, as positions of batch.folders, and
\* those of them that had a usable record when the batch began.
Passed == 1..(Len(batch.folders) - Len(queue))
Usable ==
    {i \in Passed :
        load_benchmark_results(batch.dirs0[batch.folders[i]].json) # <<>>}

\* C17: at the head of the process-all loop, and so when it returns, the
\* processed count is the number of folders passed that had a usable
\* record, which is the number of runs saved and of Benchmarks rows added
\* since the batch began; a folder passed without usable record still has
\* all its files.
C17_SkipAndCount ==
    (mode = "all" /\ pc = "next") =>
        /\ processed = Cardinality(Usable)
        /\ processed = Len(savedLog) - batch.log0
        /\ processed = BenchCount(file) - batch.rows0
        /\ \A i \in Passed \ Usable :
            dirs[batch.folders[i]] = batch.dirs0[batch.folders[i]]

\* process-all is about to return 1 processed: it skipped the first of two
\* folders and merged the second.
C17_Witness ==
    /\ mode = "all"
    /\ pc = "next"
    /\ queue = <<>>
    /\ Len(batch.folders) = 2
    /\ Usable = {2}
    /\ processed = 1

\* ------------------------------------------------------------------ C18

\* The store file holds the complete runs of savedLog and nothing else.
StoreHoldsSaved ==
    /\ file.kind = "workbook"
    /\ \A s \in BaseSheets, id \in RunIds :
        VisibleRows(s, id) = SavedRows(s, id, savedLog)

\* C18 as stated: when process-all stops, by returning, by a failing merge
\* or by an interruption, after it saved a run, the store file holds the
\* complete runs saved so far, in order, and nothing of a later folder.
C18_AsStated ==
    [][(mode = "all" /\ pc' = "idle" /\ Len(savedLog) > batch.log0) =>
            StoreHoldsSaved']_vars

\* ------------------------------------------------------------------ C19

\* The value a string or numeric field shows for a record value.
ShownStr(v) == IF v = AbsentStr THEN "unknown" ELSE v
ShownNum(v) == IF v = AbsentNum THEN 0 ELSE v

\* Every output row shows the fields of a record of the list, the absent
\* ones as "unknown" or 0.
Defaulted ==
    /\ exIn # <<>> =>
        /\ exOut.benchmarks[1].gpu_name = ShownStr(exIn[1].gpu)
        /\ exOut.benchmarks[1].gpu_driver = ShownStr(exIn[1].driver)
        /\ exOut.benchmarks[1].vram_gb = ShownNum(exIn[1].vram_gb)
    /\ \A i \in 1..Len(exOut.summary) :
        \E k \in 1..Len(exIn) :
            /\ exOut.summary[i].test_id = ShownStr(exIn[k].test_id)
            /\ exOut.summary[i].pipeline = exIn[k].pipeline
            /\ exOut.summary[i].scene = exIn[k].scene_type
            /\ exOut.summary[i].resolution = ShownNum(exIn[k].resolution)
            /\ exOut.summary[i].fps_mean = ShownNum(exIn[k].fps_mean)
    /\ \A s \in FrameSheets :
        \A i \in 1..Len(exOut.frames[s]) :
            \E k \in 1..Len(exIn) :
                /\ exOut.frames[s][i].test_id = ShownStr(exIn[k].test_id)
                /\ \E f \in 1..Len(exIn[k].frames) :
                    exOut.frames[s][i].frame = ShownNum(exIn[k].frames[f])

\* No record of the list has a timestamp.
NoTimestamp == \A i \in 1..Len(exIn) : exIn[i].timestamp = AbsentNum

\* C19 as stated: the extraction returns for every record list, and every
\* absent value shows as 0 or "unknown"; so run_date is 0 when no record
\* has a timestamp.
C19_AsStated ==
    exOut.done =>
        /\ Defaulted
        /\ (exIn # <<>> /\ NoTimestamp) => exOut.benchmarks[1].run_date = 0

\* C19 amended: the extraction returns for every record list, and every
\* absent value shows as 0 or "unknown", except the timestamp: run_date is
\* the current instant when no record has one.
C19_Defaults ==
    exOut.done =>
        /\ Defaulted
        /\ (exIn # <<>> /\ NoTimestamp) => exOut.benchmarks[1].run_date = Now(0)

\* A record with nothing but a pipeline, a scene and three frames, the first
\* without frame_num, was extracted: its rows show "unknown" and 0.
C19_Witness ==
    /\ exOut.done
    /\ Len(exIn) = 1
    /\ exIn[1].test_id = AbsentStr
    /\ exIn[1].gpu = AbsentStr
    /\ exIn[1].resolution = AbsentNum
    /\ exIn[1].timestamp = AbsentNum
    /\ Len(exOut.summary) = 1
    /\ exOut.summary[1].test_id = "unknown"
    /\ exOut.summary[1].resolution = 0
    /\ Len(exOut.frames["Compute_Frames"]) = 2
    /\ exOut.frames["Compute_Frames"][1].frame = 0
    /\ exOut.benchmarks[1].gpu_name = "unknown"
    /\ exOut.benchmarks[1].run_date = Now(0)

\* ------------------------------------------------------------------ C20

\* Both invocations have saved their run.
BothSaved == pc = "saved" /\ other.pc = "saved"

\* One of the two loaded the store the other had saved.
Sequential == pre = WorkbookFile(other.wb) \/ other.pre = WorkbookFile(wb)

\* The store file holds the Benchmarks rows of both runs.
HoldsBoth == BenchCount(file) = Len(BaseBenchRows) + 2

\* C20: once two invocations against one store path have both saved, the
\* store holds both runs exactly when one of them loaded what the other
\* had saved; when both loaded before either saved, the file is the
\* workbook of one of them, without the other's run, or is unreadable.
C20_LostUpdate ==
    BothSaved =>
        /\ HoldsBoth <=> Sequential
        /\ ~Sequential =>
            file \in {WorkbookFile(wb), WorkbookFile(other.wb), UnreadableFile}

\* Both invocations loaded the store before either saved, both saved, and
\* the file holds one run only.
C20_Witness ==
    /\ BothSaved
    /\ pre = other.pre
    /\ file.kind = "workbook"
    /\ BenchCount(file) = Len(BaseBenchRows) + 1
    /\ benchmark_id # other.benchmark_id

\* ------------------------------------------------------------------ C21

\* The positions of the Benchmarks data rows of w carrying identifier id.
BenchRowsOf(w, id) ==
    {j \in 1..Len(w["Benchmarks"].rows) :
        /\ w["Benchmarks"].rows[j].kind = "data"
        /\ w["Benchmarks"].rows[j].benchmark_id = id}

\* C21 as stated: starting from an absent store, every Summary row of the
\* stored workbook carries the benchmark_id of exactly one Benchmarks row.
C21_AsStated ==
    (origin = "absent" /\ file.kind = "workbook") =>
        \A i \in 1..Len(file.wb["Summary"].rows) :
            file.wb["Summary"].rows[i].kind = "data" =>
                Cardinality(BenchRowsOf(file.wb,
                                file.wb["Summary"].rows[i].benchmark_id)) = 1

\* ------------------------------------------------------------------ C22

\* The pipeline whose frame relation is the sheet named s.
PipelineOfSheet(s) == CHOOSE p \in PipelineKeys : PIPELINE_SHEET_NAMES(p) = s

\* Row r of the frame relation s joins to a Summary row of w: one with the
\* same (benchmark_id, test_id) and the pipeline s is keyed by.
JoinsToSummary(w, s, r) ==
    \E i \in 1..Len(w["Summary"].rows) :
        /\ w["Summary"].rows[i].kind = "data"
        /\ w["Summary"].rows[i].benchmark_id = r.benchmark_id
        /\ w["Summary"].rows[i].test_id = r.test_id
        /\ w["Summary"].rows[i].pipeline = PipelineOfSheet(s)

\* C22 as stated: starting from an absent store, every row of the three
\* per-pipeline frame relations of the stored workbook joins to a Summary
\* row with the same (benchmark_id, test_id) and the relation's pipeline.
C22_AsStated ==
    (origin = "absent" /\ file.kind = "workbook") =>
        \A s \in FrameSheets :
            \A i \in 1..Len(file.wb[s].rows) :
                file.wb[s].rows[i].kind = "data" =>
                    JoinsToSummary(file.wb, s, file.wb[s].rows[i])

\* ------------------------------------------------------------------ C23

\* The rows the saved runs contributed to sheet s, in the order of the saves.
RECURSIVE LogRows(_, _)
LogRows(s, log) ==
    IF log = <<>> THEN <<>>
    ELSE RunRows(s, Head(log)) \o LogRows(s, Tail(log))

\* C23: the data rows of every per-pipeline frame relation of the stored
\* workbook are the rows extracted from the records of the saved runs, and
\* no row extracted from a record has as frame index half (rounded down) of
\* that record's sample count.
C23_NoMidpointRow ==
    file.kind = "workbook" =>
        \A s \in FrameSheets :
            /\ DataRows(file.wb[s].rows) = LogRows(s, savedLog)
            /\ \A k \in 1..Len(savedLog) :
                \A i \in 1..Len(savedLog[k].results) :
                    LET r == savedLog[k].results[i]
                        rows == FrameRowsOf(r, s, savedLog[k].id)
                    IN \A j \in 1..Len(rows) :
                        rows[j].frame # Len(r.frames) \div 2

\* Two runs of the record with samples 0, 1, 2 are stored: HW_RT_Frames
\* holds the frames 0 and 2 of each and no frame 1.
C23_Witness ==
    /\ file.kind = "workbook"
    /\ Len(savedLog) = 2
    /\ \A k \in 1..2 : \E i \in 1..Len(savedLog[k].results) :
            savedLog[k].results[i].frames = <<0, 1, 2>>
    /\ LET rows == DataRows(file.wb["HW_RT_Frames"].rows)
       IN /\ Len(rows) = 4
          /\ {rows[j].frame : j \in 1..4} = {0, 2}

\* ------------------------------------------------------------------ C24

\* C24 as stated: every row extracted for Summary has one of the recognized
\* pipelines and a resolved scene, and a record whose pipeline is outside
\* the recognized set has no Summary row, as it has no frame row.
C24_AsStated ==
    exOut.done =>
        /\ \A i \in 1..Len(exOut.summary) :
            /\ exOut.summary[i].pipeline \in PipelineKeys
            /\ exOut.summary[i].scene # "unknown"
        /\ ~ExRecognized =>
            /\ RowsOfTest(exOut.summary, ExId, ExRec.test_id) = <<>>
            /\ \A s \in FrameSheets :
                RowsOfTest(exOut.frames[s], ExId, ExRec.test_id) = <<>>

\* ------------------------------------------------------------------ C25

\* C25: after a merge is saved, every relation among Summary and the three
\* per-pipeline frame relations to which the run contributed zero rows is
\* as the merge found it: one that existed has exactly its rows, and a
\* per-pipeline frame relation that did not exist has not been created.
C25_ZeroRowsNoChange ==
    pc = "saved" =>
        \A s \in {"Summary"} \cup FrameSheets :
            RunRows(s, RunEntry) = <<>> =>
                /\ pre.wb[s].present =>
                    /\ file.wb[s].present
                    /\ Len(file.wb[s].rows) = Len(pre.wb[s].rows)
                    /\ file.wb[s].rows = pre.wb[s].rows
                /\ (s \in FrameSheets /\ ~pre.wb[s].present) =>
                    ~file.wb[s].present

\* A run without any Summary or frame row was saved into a store holding
\* Summary and HW_RT_Frames rows and no Fragment_Frames.
C25_Witness ==
    /\ pc = "saved"
    /\ \A s \in {"Summary"} \cup FrameSheets : RunRows(s, RunEntry) = <<>>
    /\ Len(pre.wb["Summary"].rows) >= 2
    /\ Len(pre.wb["HW_RT_Frames"].rows) >= 2
    /\ file.wb["Summary"] = pre.wb["Summary"]
    /\ file.wb["HW_RT_Frames"] = pre.wb["HW_RT_Frames"]
    /\ ~file.wb["Fragment_Frames"].present

\* ------------------------------------------------------------------ C26

\* Folder d is among the run-folders get_benchmark_folders lists for ds.
Listed(d, ds) ==
    \E i \in 1..Len(get_benchmark_folders(ds)) : get_benchmark_folders(ds)[i] = d

\* Every folder process-all would find in ds is one it skips.
ZeroRun(ds) ==
    \A d \in Folders :
        Listed(d, ds) =>
            /\ ~LoadRaises(ds[d].json)
            /\ load_benchmark_results(ds[d].json) = <<>>

\* The step in which process_all_benchmarks returns its count.
BatchReturns ==
    /\ mode = "all"
    /\ pc = "next"
    /\ queue = <<>>
    /\ exit'.report = "Processed"

\* The runs saved since the running batch began that merged folder d.
BatchRunsOf(d) ==
    {k \in (batch.log0 + 1)..Len(savedLog) : savedLog[k].folder = d}

\* The folders of the running batch that an earlier batch had merged.
MergedBefore ==
    {d \in Folders :
        /\ Listed(d, batch.dirs0)
        /\ \E j \in 1..batch.log0 :
            savedLog[j].folder = d /\ savedLog[j].id.prefix # <<>>}

\* The cleanup half of C26: a folder a batch purged is no longer listed; a
\* batch with cleanup that returned leaves only folders a batch skips; and a
\* process-all started on such folders saves nothing, counts nothing and
\* ends with status 1.
CleanupBatchIdempotent ==
    /\ (mode = "all" /\ pc = "saved" /\ cleanup /\ pc' = "next")
            => ~Listed(cur, dirs')
    /\ (BatchReturns /\ cleanup) => ZeroRun(dirs')
    /\ (pc = "idle" /\ ZeroRun(dirs) /\ (mode' = "all" \/ exit'.cmd = "all"))
            => /\ file' = file
               /\ pc' = "idle" => exit'.status = "1"
    /\ (mode = "all" /\ ZeroRun(batch.dirs0))
            => /\ file' = file
               /\ processed' = 0
               /\ savedLog' = savedLog
               /\ BatchReturns => exit'.status = "1"

\* C26 as stated: process-all with cleanup is idempotent on the store, and
\* a batch without cleanup that returns has merged again every folder an
\* earlier batch had merged, each under a run identifier that no earlier
\* run carries.
C26_AsStated ==
    [][/\ CleanupBatchIdempotent
       /\ (BatchReturns /\ ~cleanup) =>
            \A d \in MergedBefore :
                /\ BatchRunsOf(d) # {}
                /\ \A k \in BatchRunsOf(d) :
                    \A j \in 1..batch.log0 : savedLog[j].id # savedLog[k].id]_vars

====
